---- MODULE Spec2Model ----
(***************************************************************************)
(* Model of pj3streamlit.py: an inventory kept as a Python list of dicts,  *)
(* loaded from inventory.json (or the imported fallback list) at the start *)
(* of every script run, filtered for display, and mutated by the Add /     *)
(* Edit by Name / Delete by Name forms, which write the list back with     *)
(* json.dump.                                                              *)
(*                                                                         *)
(* Python lists are objects: load_inventory returns either the list parsed *)
(* by json.load (a fresh object per run) or the module-level list          *)
(* fallback_inventory itself.  The model keeps both objects and the name   *)
(* binding `ref` that says which of them `inventory` denotes in main().    *)
(***************************************************************************)
EXTENDS Integers, Sequences, FiniteSets, TLC

VARIABLES
    fallback_inventory, \* the list object imported from inventory_data
    data,               \* the list object json.load built in this run
    ref,                \* which object `inventory` names: "fallback" | "data"
    file,               \* inventory.json on disk
    writable,           \* whether open("inventory.json", "w") succeeds
    pc,                 \* position in main(): "start" | "loaded"
    last,               \* the step main() took last, with its inputs and outcome
    prev,               \* at a load: the step of the run before it
    filtered,           \* the list filter_inventory built
    runs                \* how many times the script has been run

vars == <<fallback_inventory, data, ref, file, writable, pc, last, prev, filtered, runs>>

-----------------------------------------------------------------------------
(* Bounds and input sets *)

MaxLen == 3          \* the Add form is not submitted on a longer list
MaxRuns == 4         \* the session ends after this many runs of the script

RatingMax == 5       \* st.number_input("Rating", ..., max_value=5.0)
MinValue == 0        \* min_value of the Add form's number inputs

Names == {"x", "X", "y"}

\* str.lower() on the strings of the model
Lower(s) ==
    CASE s = "X" -> "x"
      [] s = "A" -> "a"
      [] s = "B" -> "b"
      [] s = "All" -> "all"
      [] OTHER -> s

Item(n, c, p, s, r) == [name |-> n, category |-> c, price |-> p, stock |-> s, rating |-> r]

\* The list inventory_data.inventory holds when the module is first imported.
DefaultInventory == << Item("x", "A", 2, 1, 4), Item("y", "B", 1, 0, 5) >>

\* Records the Add form can submit: price >= 0, stock >= 0, 0 <= rating <= 5.
AddCandidates ==
    { Item("X", "a", MinValue, MinValue, MinValue),
      Item("x", "B", 1, 2, RatingMax),
      Item("y", "A", 2, 1, 3) }

\* Values the Edit form can submit: its number inputs have no min or max.
EditValues ==
    { [price |-> 1, stock |-> 1, rating |-> 2],
      [price |-> 0 - 1, stock |-> 0 - 1, rating |-> RatingMax + 1] }

-----------------------------------------------------------------------------
(* json.dump / json.load *)

Str(s) == [t |-> "str", s |-> s, n |-> 0]
Num(n) == [t |-> "num", s |-> "", n |-> n]

\* A buggy encoder: the values of price and stock change places.
DumpItemSwapped(item) ==
    << [k |-> "name", v |-> Str(item.name)],
       [k |-> "category", v |-> Str(item.category)],
       [k |-> "price", v |-> Num(item.stock)],
       [k |-> "stock", v |-> Num(item.price)],
       [k |-> "rating", v |-> Num(item.rating)] >>

\* json.dump writes a dict as an object: its members in insertion order.
DumpItem(item) ==
    << [k |-> "name", v |-> Str(item.name)],
       [k |-> "category", v |-> Str(item.category)],
       [k |-> "price", v |-> Num(item.price)],
       [k |-> "stock", v |-> Num(item.stock)],
       [k |-> "rating", v |-> Num(item.rating)] >>

JsonDump(inv) == [i \in 1..Len(inv) |-> DumpItem(inv[i])]

Member(obj, key) == (CHOOSE i \in 1..Len(obj) : obj[i].k = key)

\* json.load builds a dict from an object: key -> value.
LoadItem(obj) ==
    [name |-> obj[Member(obj, "name")].v.s,
     category |-> obj[Member(obj, "category")].v.s,
     price |-> obj[Member(obj, "price")].v.n,
     stock |-> obj[Member(obj, "stock")].v.n,
     rating |-> obj[Member(obj, "rating")].v.n]

JsonLoad(doc) == [i \in 1..Len(doc) |-> LoadItem(doc[i])]

\* States of inventory.json
MissingFile == [exists |-> FALSE, wellformed |-> FALSE, doc |-> << >>]
CorruptFile == [exists |-> TRUE, wellformed |-> FALSE, doc |-> << >>]
JsonFile(doc) == [exists |-> TRUE, wellformed |-> TRUE, doc |-> doc]

-----------------------------------------------------------------------------
(* The list `inventory` names in main() *)

inventory == IF ref = "fallback" THEN fallback_inventory ELSE data

\* In-place mutation of the list `inventory` names.
Mutate(new) ==
    IF ref = "fallback"
    THEN fallback_inventory' = new /\ UNCHANGED data
    ELSE data' = new /\ UNCHANGED fallback_inventory

NoItem == Item("", "", 0, 0, 0)
NoValues == [price |-> 0, stock |-> 0, rating |-> 0]

\* What a step of main() did: its inputs, the list before and after it, whether
\* it called save_inventory, and what it reported.
Step(kind, name, cand, vals, before, after, saveCalled, result) ==
    [kind |-> kind, name |-> name, cand |-> cand, vals |-> vals,
     before |-> before, after |-> after, saveCalled |-> saveCalled,
     result |-> result]

NoStep == Step("none", "", NoItem, NoValues, << >>, << >>, FALSE, "none")

-----------------------------------------------------------------------------
(* Storage adapter *)

\* A buggy load: the `if data` test is missing, an empty document is returned.
LoadOutcomeNoEmptyTest(f) ==
    IF ~f.exists THEN "missing"
    ELSE IF ~f.wellformed THEN "corrupt"
    ELSE "data"

\* Which branch of load_inventory is taken for a state of inventory.json.
LoadOutcome(f) ==
    IF ~f.exists THEN "missing"
    ELSE IF ~f.wellformed THEN "corrupt"
    ELSE IF JsonLoad(f.doc) # << >> THEN "data"
    ELSE "empty"

\* inventory = load_inventory() at the top of main()
load_inventory ==
    /\ pc = "start"
    /\ runs < MaxRuns
    /\ runs' = runs + 1
    /\ LET outcome == LoadOutcome(file)
       IN /\ IF outcome = "data"
             THEN ref' = "data" /\ data' = JsonLoad(file.doc)
             ELSE ref' = "fallback" /\ data' = << >>
          /\ last' = Step("load", "", NoItem, NoValues, << >>,
                          IF outcome = "data" THEN JsonLoad(file.doc)
                                              ELSE fallback_inventory,
                          FALSE, outcome)
    /\ prev' = last
    /\ pc' = "loaded"
    /\ UNCHANGED <<fallback_inventory, file, writable, filtered>>

\* The file json.dump leaves behind.
WrittenFile(inv) == JsonFile(JsonDump(inv))

\* A buggy save: nothing is written.
save_inventory_skipped(inv) == UNCHANGED file

\* save_inventory(inv): open(..., "w") raises when the file cannot be written.
save_inventory(inv) ==
    IF writable THEN file' = WrittenFile(inv) ELSE UNCHANGED file

-----------------------------------------------------------------------------
(* Mutation view *)

\* A buggy append: the new record goes in front.
AppendedInFront(inv, cand) == <<cand>> \o inv

\* inventory.append({...})
Appended(inv, cand) == Append(inv, cand)

\* Add form submitted with record cand.
Add(cand) ==
    /\ pc = "loaded"
    /\ Len(inventory) < MaxLen
    /\ LET new == Appended(inventory, cand)
       IN /\ Mutate(new)
          /\ save_inventory(new)
          /\ last' = Step("add", cand.name, cand, NoValues, inventory, new, TRUE,
                          IF writable THEN "added" ELSE "ioerror")
    /\ prev' = NoStep
    /\ pc' = "start"
    /\ UNCHANGED <<ref, writable, filtered, runs>>

\* A buggy lookup: the last match instead of the first.
LastMatch(inv, key) ==
    IF \E i \in 1..Len(inv) : Lower(inv[i].name) = key
    THEN CHOOSE i \in 1..Len(inv) :
            /\ Lower(inv[i].name) = key
            /\ \A j \in (i + 1)..Len(inv) : Lower(inv[j].name) # key
    ELSE 0

\* next((item for item in inventory if item['name'].lower() == key), None):
\* the index of the first match, 0 when there is none.
FirstMatch(inv, key) ==
    IF \E i \in 1..Len(inv) : Lower(inv[i].name) = key
    THEN CHOOSE i \in 1..Len(inv) :
            /\ Lower(inv[i].name) = key
            /\ \A j \in 1..(i - 1) : Lower(inv[j].name) # key
    ELSE 0

\* match['price'] = price; match['stock'] = stock; match['rating'] = rating
Updated(inv, i, vals) ==
    [inv EXCEPT ![i] = [@ EXCEPT !.price = vals.price,
                                 !.stock = vals.stock,
                                 !.rating = vals.rating]]

\* "Edit by Name" with the text input `input`; the form, when shown, is
\* submitted with vals or left alone.
EditByName(input, vals, submitted) ==
    /\ pc = "loaded"
    /\ LET name_to_edit == Lower(input)
           match == FirstMatch(inventory, name_to_edit)
       IN IF match = 0
          THEN /\ last' = Step("edit", name_to_edit, NoItem, NoValues, inventory,
                               inventory, FALSE, "notfound")
               /\ UNCHANGED <<fallback_inventory, data, file>>
          ELSE IF submitted
          THEN LET new == Updated(inventory, match, vals)
               IN /\ Mutate(new)
                  /\ save_inventory(new)
                  /\ last' = Step("edit", name_to_edit, NoItem, vals, inventory,
                                  new, TRUE,
                                  IF writable THEN "updated" ELSE "ioerror")
          ELSE /\ last' = Step("edit", name_to_edit, NoItem, NoValues, inventory,
                               inventory, FALSE, "none")
               /\ UNCHANGED <<fallback_inventory, data, file>>
    /\ prev' = NoStep
    /\ pc' = "start"
    /\ UNCHANGED <<ref, writable, filtered, runs>>

\* A buggy delete: only the first match is removed.
RECURSIVE WithoutFirst(_, _)
WithoutFirst(inv, key) ==
    IF inv = << >> THEN << >>
    ELSE IF Lower(Head(inv).name) # key
         THEN <<Head(inv)>> \o WithoutFirst(Tail(inv), key)
         ELSE Tail(inv)

\* [item for item in inventory if item['name'].lower() != key]
RECURSIVE WithoutName(_, _)
WithoutName(inv, key) ==
    IF inv = << >> THEN << >>
    ELSE IF Lower(Head(inv).name) # key
         THEN <<Head(inv)>> \o WithoutName(Tail(inv), key)
         ELSE WithoutName(Tail(inv), key)

\* A buggy test: a list of unchanged length counts as shortened.
NotLonger(new, original_len) == Len(new) <= original_len

\* len(inventory) < original_len
Shorter(new, original_len) == Len(new) < original_len

\* "Delete by Name" with the text input `input` and the Delete button pressed.
DeleteByName(input) ==
    /\ pc = "loaded"
    /\ LET name_to_delete == Lower(input)
           original_len == Len(inventory)
           new == WithoutName(inventory, name_to_delete)
       IN /\ Mutate(new)
          /\ IF Shorter(new, original_len)
             THEN /\ save_inventory(new)
                  /\ last' = Step("delete", name_to_delete, NoItem, NoValues,
                                  inventory, new, TRUE,
                                  IF writable THEN "deleted" ELSE "ioerror")
             ELSE /\ UNCHANGED file
                  /\ last' = Step("delete", name_to_delete, NoItem, NoValues,
                                  inventory, new, FALSE, "notfound")
    /\ prev' = NoStep
    /\ pc' = "start"
    /\ UNCHANGED <<ref, writable, filtered, runs>>

\* Action "None", or a form or button left alone: the run ends without a change.
NoAction ==
    /\ pc = "loaded"
    /\ last' = Step("noaction", "", NoItem, NoValues, inventory, inventory, FALSE, "none")
    /\ prev' = NoStep
    /\ pc' = "start"
    /\ UNCHANGED <<fallback_inventory, data, ref, file, writable, filtered, runs>>

\* Between runs the file's location becomes writable or stops being so.
SetWritable(b) ==
    /\ pc = "start"
    /\ writable # b
    /\ writable' = b
    /\ UNCHANGED <<fallback_inventory, data, ref, file, pc, last, prev, filtered, runs>>

-----------------------------------------------------------------------------
(* Filter view *)

\* ["All"] + sorted(set(item['category'] for item in inventory))
CategoryOptions(inv) == {"All"} \cup {inv[i].category : i \in 1..Len(inv)}

\* Values the three threshold inputs can be given: min_value is 0.
Thresholds == {0, 1, 2, RatingMax}

\* A buggy loop: an item priced exactly max_price is skipped too.
RECURSIVE FilteredBelow(_, _, _, _, _)
FilteredBelow(inv, category, max_price, min_rating, min_stock) ==
    IF inv = << >> THEN << >>
    ELSE LET item == Head(inv)
             rest == FilteredBelow(Tail(inv), category, max_price, min_rating, min_stock)
         IN IF category # "All" /\ Lower(item.category) # Lower(category) THEN rest
            ELSE IF max_price > 0 /\ item.price >= max_price THEN rest
            ELSE IF min_rating > 0 /\ item.rating < min_rating THEN rest
            ELSE IF min_stock > 0 /\ item.stock < min_stock THEN rest
            ELSE <<item>> \o rest

\* The loop of filter_inventory: each test that fails skips the item
\* (continue); an item that passes all four is appended to filtered.
RECURSIVE Filtered(_, _, _, _, _)
Filtered(inv, category, max_price, min_rating, min_stock) ==
    IF inv = << >> THEN << >>
    ELSE LET item == Head(inv)
             rest == Filtered(Tail(inv), category, max_price, min_rating, min_stock)
         IN IF category # "All" /\ Lower(item.category) # Lower(category) THEN rest
            ELSE IF max_price > 0 /\ item.price > max_price THEN rest
            ELSE IF min_rating > 0 /\ item.rating < min_rating THEN rest
            ELSE IF min_stock > 0 /\ item.stock < min_stock THEN rest
            ELSE <<item>> \o rest

\* filter_inventory(inventory) with the four inputs set.  The step records the
\* category in `name` and the thresholds in `vals` (price: max_price, rating:
\* min_rating, stock: min_stock).
filter_inventory(category, max_price, min_rating, min_stock) ==
    /\ pc = "loaded"
    /\ filtered' = Filtered(inventory, category, max_price, min_rating, min_stock)
    /\ last' = Step("filter", category, NoItem,
                    [price |-> max_price, stock |-> min_stock, rating |-> min_rating],
                    inventory, inventory, FALSE, "filtered")
    /\ pc' = "filtered"
    /\ UNCHANGED <<fallback_inventory, data, ref, file, writable, prev, runs>>

\* Items the filter is tried on: the categories differ by case and by letter,
\* the numbers include the values the Edit form can leave behind.
FilterItems ==
    { Item("x", "A", 2, 1, 4),
      Item("X", "a", 0, 0, 0),
      Item("y", "B", 1, 2, RatingMax),
      Item("y", "A", 0 - 1, 0 - 1, RatingMax + 1) }

RECURSIVE Lists(_, _)
Lists(S, n) ==
    IF n = 0 THEN { << >> }
    ELSE LET shorter == Lists(S, n - 1)
         IN shorter \cup { Append(l, e) : l \in shorter, e \in S }

\* The state main() is in when it calls filter_inventory: inventory is the
\* parsed list, or the fallback list (the only one that can be empty).
InitFilter ==
    /\ \E C \in Lists(FilterItems, MaxLen) :
          IF C = << >>
          THEN /\ ref = "fallback" /\ fallback_inventory = C /\ data = << >>
               /\ file = JsonFile(<< >>)
               /\ last = Step("load", "", NoItem, NoValues, << >>, C, FALSE, "empty")
          ELSE /\ ref = "data" /\ fallback_inventory = DefaultInventory /\ data = C
               /\ file = WrittenFile(C)
               /\ last = Step("load", "", NoItem, NoValues, << >>, C, FALSE, "data")
    /\ writable = TRUE
    /\ pc = "loaded"
    /\ prev = NoStep
    /\ filtered = << >>
    /\ runs = 1

\* filter_inventory only reads the list, so the session below leaves it out and
\* it is checked here on every list of up to MaxLen items.
NextFilter ==
    \E category \in CategoryOptions(inventory),
       max_price \in Thresholds, min_rating \in Thresholds, min_stock \in Thresholds :
          filter_inventory(category, max_price, min_rating, min_stock)

SpecFilter == InitFilter /\ [][NextFilter]_vars

-----------------------------------------------------------------------------
(* The session: the script is run again on every interaction *)

LookupNames == Names \cup {"z"}

InitialFiles ==
    { MissingFile, CorruptFile, JsonFile(<< >>),
      JsonFile(JsonDump(<< Item("y", "B", 1, 0, 5) >>)) }

Init ==
    /\ fallback_inventory = DefaultInventory
    /\ data = << >>
    /\ ref = "fallback"
    /\ file \in InitialFiles
    /\ writable \in BOOLEAN
    /\ pc = "start"
    /\ last = NoStep
    /\ prev = NoStep
    /\ filtered = << >>
    /\ runs = 0

Next ==
    \/ load_inventory
    \/ \E cand \in AddCandidates : Add(cand)
    \/ \E input \in LookupNames, vals \in EditValues, submitted \in BOOLEAN :
          EditByName(input, vals, submitted)
    \/ \E input \in LookupNames : DeleteByName(input)
    \/ NoAction
    \/ \E b \in BOOLEAN : SetWritable(b)

Spec == Init /\ [][Next]_vars

-----------------------------------------------------------------------------
(* Properties *)

Succeeded == {"added", "updated", "deleted"}
IsMutation == last.kind \in {"add", "edit", "delete"}
FellBack == {"missing", "corrupt", "empty"}

Matches(inv, key) == {i \in 1..Len(inv) : Lower(inv[i].name) = key}

\* The order-preserving subsequence of C at the indices in I.
RECURSIVE PickFrom(_, _, _)
PickFrom(C, I, i) ==
    IF i > Len(C) THEN << >>
    ELSE (IF i \in I THEN <<C[i]>> ELSE << >>) \o PickFrom(C, I, i + 1)

Pick(C, I) == PickFrom(C, I, 1)

Range(seq) == {seq[i] : i \in 1..Len(seq)}

\* C1: right after an Add, Edit or Delete that reported success, the document
\* in inventory.json is the in-memory list: same items, same order, same
\* field values.
C1_DiskEqualsMemory ==
    (IsMutation /\ last.result \in Succeeded) =>
        /\ file.exists /\ file.wellformed
        /\ Len(file.doc) = Len(inventory)
        /\ \A i \in 1..Len(inventory) : LoadItem(file.doc[i]) = inventory[i]

\* A successful delete on the fallback list that left items behind, written out.
C1_Witness ==
    /\ last.kind = "delete" /\ last.result = "deleted"
    /\ ref = "fallback" /\ inventory # << >>
    /\ JsonLoad(file.doc) = inventory

\* C2 as stated: a submitted Add appends the candidate, the length grows by
\* one, and the load of the next run returns a list ending in the candidate.
C2_AddThenLoadAlways ==
    /\ last.kind = "add" =>
          inventory = last.before \o <<last.cand>>
    /\ (last.kind = "load" /\ prev.kind = "add") =>
          /\ Len(inventory) = Len(prev.before) + 1
          /\ inventory[Len(inventory)] = prev.cand

\* C2 amended: a submitted Add appends the candidate at the end of the list
\* and changes nothing else, whatever the names already in it; when its save
\* succeeded, the load of the next run returns that list, ending in the
\* candidate.
C2_AddThenLoad ==
    /\ last.kind = "add" =>
          /\ inventory = last.before \o <<last.cand>>
          /\ Len(inventory) = Len(last.before) + 1
          /\ last.saveCalled
    /\ (last.kind = "load" /\ prev.kind = "add" /\ prev.result = "added") =>
          /\ last.result = "data"
          /\ inventory = prev.before \o <<prev.cand>>
          /\ inventory[Len(inventory)] = prev.cand
    /\ (pc = "loaded" /\ Len(inventory) < MaxLen) =>
          \A cand \in AddCandidates : ENABLED Add(cand)

\* An Add of a name the list already had, read back by the next run.
C2_Witness ==
    /\ last.kind = "load" /\ prev.kind = "add" /\ prev.result = "added"
    /\ Matches(prev.before, Lower(prev.cand.name)) # {}
    /\ inventory[Len(inventory)] = prev.cand

\* C3: Delete by Name removes every item whose lower-cased name is the key,
\* keeps the others in order, calls save exactly when the list got shorter
\* (leaving the new list on disk when the write succeeds), and reports
\* not-found when the length is unchanged.
C3_DeleteAll ==
    last.kind = "delete" =>
        /\ inventory = Pick(last.before,
                            (1..Len(last.before)) \ Matches(last.before, last.name))
        /\ Matches(inventory, last.name) = {}
        /\ last.saveCalled <=> (Len(inventory) < Len(last.before))
        /\ last.result = "deleted" => JsonLoad(file.doc) = inventory
        /\ (Len(inventory) = Len(last.before)) <=> (last.result = "notfound")

\* A delete that removed two items and kept one between them.
C3_Witness ==
    /\ last.kind = "delete" /\ last.result = "deleted"
    /\ Cardinality(Matches(last.before, last.name)) = 2
    /\ Len(last.before) = 3 /\ Len(inventory) = 1
    /\ inventory[1] = last.before[2]

\* C4: an Edit or Delete whose key matches no item reports not-found, leaves
\* the list as it was, does not call save and leaves the file as it was.
C4_NotFound ==
    [][ ( /\ pc = "loaded"
          /\ last'.kind \in {"edit", "delete"}
          /\ Matches(inventory, last'.name) = {} )
        => ( /\ last'.result = "notfound"
             /\ ~last'.saveCalled
             /\ inventory' = inventory
             /\ fallback_inventory' = fallback_inventory
             /\ file' = file ) ]_vars

\* An Edit or Delete that reported not-found on a list that is not empty.
C4_Witness ==
    /\ last.kind \in {"edit", "delete"} /\ last.result = "notfound"
    /\ Matches(last.before, last.name) = {}
    /\ last.before # << >> /\ inventory = last.before

ItemFields == {"name", "category", "price", "stock", "rating"}

C6_RoundTrip ==
    ( /\ last.kind = "load"
      /\ prev.saveCalled /\ prev.result \in Succeeded
      /\ prev.after # << >> )
    => ( /\ inventory = prev.after
         /\ ref = "data" )

\* A list with negative and repeated values written and read back.
C6_Witness ==
    /\ last.kind = "load" /\ prev.result = "updated"
    /\ Len(prev.after) = 3
    /\ \E i \in 1..Len(inventory) : inventory[i].price < 0
    /\ inventory = prev.after

\* The predicate of the filter view, from its four inputs.
Satisfies(item, category, max_price, min_rating, min_stock) ==
    /\ category = "All" \/ Lower(item.category) = Lower(category)
    /\ max_price <= 0 \/ item.price <= max_price
    /\ min_rating <= 0 \/ item.rating >= min_rating
    /\ min_stock <= 0 \/ item.stock >= min_stock

\* C7: the filter result is the order-preserving subsequence of the list whose
\* items satisfy every active predicate, which is the intersection of the
\* results of the four single-predicate filters; with "All" and zeros it is
\* the list itself; the list is not changed.
C7_Filter ==
    last.kind = "filter" =>
        LET C == last.before
            cat == last.name
            mp == last.vals.price
            mr == last.vals.rating
            ms == last.vals.stock
            one == << Filtered(C, cat, 0, 0, 0), Filtered(C, "All", mp, 0, 0),
                      Filtered(C, "All", 0, mr, 0), Filtered(C, "All", 0, 0, ms) >>
        IN /\ filtered = Pick(C, {i \in 1..Len(C) : Satisfies(C[i], cat, mp, mr, ms)})
           /\ filtered = Pick(C, {i \in 1..Len(C) :
                                     \A k \in 1..4 : C[i] \in Range(one[k])})
           /\ \A k \in 1..4 : Len(one[k]) >= Len(filtered)
           /\ (cat = "All" /\ mp = 0 /\ mr = 0 /\ ms = 0) => filtered = C
           /\ inventory = C

\* A filter with all four constraints active that keeps some items and drops
\* others, one of them for its category only.
C7_Witness ==
    /\ last.kind = "filter" /\ last.name # "All"
    /\ last.vals.price > 0 /\ last.vals.rating > 0 /\ last.vals.stock > 0
    /\ Len(filtered) >= 1 /\ Len(filtered) < Len(last.before)
    /\ \E i \in 1..Len(last.before) :
          /\ Satisfies(last.before[i], "All", last.vals.price, last.vals.rating,
                       last.vals.stock)
          /\ last.before[i] \notin Range(filtered)

\* C8: a submitted Edit changes the price, stock and rating of the first item
\* whose lower-cased name is the key, and nothing else: not that item's name
\* or category, not any other item, not the length or the order.
C8_EditFrame ==
    (last.kind = "edit" /\ last.saveCalled) =>
        LET m == Matches(last.before, last.name)
        IN /\ m # {}
           /\ Len(inventory) = Len(last.before)
           /\ \A i \in 1..Len(inventory) :
                 IF i \in m /\ \A j \in m : i <= j
                 THEN /\ inventory[i].name = last.before[i].name
                      /\ inventory[i].category = last.before[i].category
                      /\ inventory[i].price = last.vals.price
                      /\ inventory[i].stock = last.vals.stock
                      /\ inventory[i].rating = last.vals.rating
                 ELSE inventory[i] = last.before[i]

\* An edit of a name two items have, which changed the first of them.
C8_Witness ==
    /\ last.kind = "edit" /\ last.result = "updated"
    /\ Cardinality(Matches(last.before, last.name)) = 2
    /\ inventory # last.before

InRange(item) ==
    /\ item.price >= 0
    /\ item.stock >= 0
    /\ item.rating >= 0 /\ item.rating <= RatingMax

\* C9: every item of the list has price >= 0, stock >= 0 and rating in [0, 5]
\* after any sequence of Add, Edit and Delete with values their forms accept.
C9_ValuesInRange ==
    \A i \in 1..Len(inventory) : InRange(inventory[i])

\* C10: the fallback list is never changed, so every load that falls back
\* returns the original default sequence.
C10_FallbackFixed ==
    /\ fallback_inventory = DefaultInventory
    /\ (last.kind = "load" /\ last.result \in FellBack) =>
          inventory = DefaultInventory

====
